---- MODULE Spec2Model ----
(***************************************************************************)
(* AutoSave (auto_save.py): the on_modified debounce of AutoSaveListener,   *)
(* its Timer threads running debounce_save, the callback handed to          *)
(* sublime.set_timeout, and the AutoSaveCommand toggle.                     *)
(*                                                                         *)
(* The host delivers on_load / on_modified / commands / set_timeout         *)
(* callbacks on its main thread, so each of those handlers is one step.     *)
(* debounce_save runs on a threading.Timer thread without any lock: its     *)
(* length check (line 119), pop (120), set_timeout (123) and reset (124)    *)
(* are separate steps that interleave with everything else.                 *)
(*                                                                         *)
(* Time is abstracted to the order of timer expiries: a Timer started with  *)
(* delay D cannot expire before an earlier Timer whose delay was <= D.      *)
(***************************************************************************)
EXTENDS Naturals, Integers, Sequences, FiniteSets, TLC

\* Bound: number of Timer threads ever started (accepted modifications).
MaxEvents == 2

\* The same bound for the specification of the racing drains.
MaxRace == 3

\* The views (documents) the host has open.
Views == {"v1", "v2"}

\* Values of the auto_save_delay_in_seconds setting.
Delays == {1, 2}

\* How the toggle command can be invoked: without arguments, or with an
\* explicit enable argument.
Args == {"omitted", "true", "false"}

VARIABLES
    enabled,      \* settings[auto_save_on_modified]
    delay,        \* settings[auto_save_delay_in_seconds]
    last_loaded,  \* settings[auto_save_document_last_loaded]
    status,       \* last text given to sublime.status_message
    dirty,        \* view.is_dirty()
    loading,      \* view.is_loading()
    file_name,    \* view.file_name() is set
    save_queue,   \* AutoSaveListener.save_queue
    timers,       \* the Timer threads started by on_modified, in start order
    timeouts,     \* callbacks queued by sublime.set_timeout(callback, 0)
    saves,        \* number of view.run_command("save") per view
    everEnabled,  \* history: the enabled setting has been true at some point
    invoked,      \* observer: how the toggle command was invoked last
    bursts,       \* observer: the burst each Timer's modification belongs to
    sinceReset,   \* observer: modifications accepted since the last reset
    poppedSince,  \* observer: tokens popped since the last reset
    owed,         \* observer: views modified and not handed to set_timeout since
    ungated,      \* observer: no set_timeout since the last accepted modification
    raced         \* observer: a drain's check/pop/reset has been interleaved

counters == <<sinceReset, poppedSince, owed, ungated, raced>>

vars == <<enabled, delay, last_loaded, status, dirty, loading, file_name,
          save_queue, timers, timeouts, saves, everEnabled, invoked, bursts,
          counters>>

observers == <<invoked, bursts, counters>>

settingsVars == <<enabled, delay, last_loaded, status>>
viewVars == <<dirty, loading, file_name>>
queueVars == <<save_queue, timers, timeouts, saves>>

----------------------------------------------------------------------------
TimerIds == 1..Len(timers)

\* A drain (debounce_save) that has passed its length check (line 119) and
\* has not yet finished its pop (120) or its reset (124).
InDrain(i) == timers[i].pc \in {"pop", "sched", "reset"}

\* The drain of Timer i has handed callback to sublime.set_timeout (line 123).
Gated(i) == timers[i].pc \in {"reset", "depleted"}

\* The Timer thread i has ended.
Finished(i) == timers[i].pc \in {"popped", "depleted", "error"}

\* The burst a newly accepted modification belongs to: the burst of the
\* previous accepted modification when that one's Timer has not expired yet
\* (the modification comes less than `delay` after it) and was started with
\* the same delay, a new burst otherwise.
BurstOfNext ==
    IF timers = <<>> THEN 1
    ELSE LET p == timers[Len(timers)] IN
         IF p.pc = "armed" /\ p.delay = delay
           THEN bursts[Len(timers)] ELSE bursts[Len(timers)] + 1

----------------------------------------------------------------------------
Init ==
    /\ enabled \in BOOLEAN
    /\ delay = 1
    /\ last_loaded = "unset"
    /\ status = ""
    /\ dirty = [v \in Views |-> FALSE]
    /\ loading = [v \in Views |-> FALSE]
    /\ file_name \in [Views -> BOOLEAN]
    /\ save_queue = <<>>
    /\ timers = <<>>
    /\ timeouts = <<>>
    /\ saves = [v \in Views |-> 0]
    /\ everEnabled = enabled
    /\ invoked = ""
    /\ bursts = <<>>
    /\ sinceReset = 0
    /\ poppedSince = 0
    /\ owed = {}
    /\ ungated = FALSE
    /\ raced = FALSE

----------------------------------------------------------------------------
\* settings.get(on_modified_field), as on_modified reads it.
ActivatedWrongField == delay # 0
Activated == enabled

\* view.is_dirty()
IsDirtyUncalled(view) == TRUE
IsDirty(view) == dirty[view]

\* view.is_loading()
IsLoadingNever(view) == FALSE
IsLoading(view) == loading[view]

\* view.file_name(), as a truth value.
FileNameUncalled(view) == TRUE
FileName(view) == file_name[view]

\* The condition under which callback does not save (line 108).
SkipsOnlyWhenBoth(view) == ~IsDirty(view) /\ IsLoading(view)
ShouldSkip(view) == ~IsDirty(view) \/ IsLoading(view)

\* The length check of debounce_save (line 119).
QueueLongerThanTwo == Len(save_queue) > 2
QueueLongerThanOne == Len(save_queue) > 1

\* The reset of debounce_save (line 124): the class attribute is rebound to
\* an empty list.  (Assigning to a local name would leave it as it is.)
ResetLocalOnly == save_queue
ResetQueue == <<>>

\* The view the callback of Timer i's on_modified call closed over.
OtherView(i) == CHOOSE v \in Views : v # timers[i].view
CallbackView(i) == timers[i].view

\* on_load with the bug of also discarding the pending tokens.
on_loadClearsQueue(view) ==
    /\ last_loaded' = "stamp"
    /\ save_queue' = <<>>
    /\ UNCHANGED <<enabled, delay, status, viewVars, timers, timeouts, saves,
                   everEnabled>>

\* AutoSaveListener.on_load: stamps the load time into the settings.
on_load(view) ==
    /\ last_loaded' = "stamp"
    /\ UNCHANGED <<enabled, delay, status, viewVars, queueVars, everEnabled>>

\* AutoSaveListener.on_modified.
on_modified(view) ==
    /\ IF ~Activated
         THEN UNCHANGED queueVars
       ELSE IF ~IsDirty(view)
         THEN UNCHANGED queueVars
       ELSE IF Activated /\ FileName(view) /\ IsDirty(view)
         THEN /\ save_queue' = Append(save_queue, 0)
              /\ timers' = Append(timers,
                    [view |-> view, delay |-> delay, pc |-> "armed"])
              /\ UNCHANGED <<timeouts, saves>>
       ELSE UNCHANGED queueVars
    /\ UNCHANGED <<settingsVars, viewVars, everEnabled>>

\* threading.Timer(delay, debounce_save).start(): the Timer expires and its
\* thread is about to call debounce_save.  Timers with the same or a shorter
\* delay that were started earlier expire first.
TimerExpires(i) ==
    /\ timers[i].pc = "armed"
    /\ \A j \in 1..(i-1) :
          timers[j].delay <= timers[i].delay => timers[j].pc # "armed"
    /\ timers' = [timers EXCEPT ![i].pc = "fired"]
    /\ UNCHANGED <<settingsVars, viewVars, save_queue, timeouts, saves,
                   everEnabled>>

\* The statement debounce_save's thread executes next, by its pc:
\*   "fired"  if len(save_queue) > 1                      (line 119)
\*   "pop"    save_queue.pop(), IndexError when empty     (line 120)
\*   "sched"  sublime.set_timeout(callback, 0)            (line 123)
\*   "reset"  save_queue = []                             (line 124)
\* and it ends "popped", "depleted" or, on the IndexError, "error".
debounce_save(i) ==
    /\ timers[i].pc \in {"fired", "pop", "sched", "reset"}
    /\ CASE timers[i].pc = "fired" ->
              /\ timers' = [timers EXCEPT ![i].pc =
                               IF QueueLongerThanOne THEN "pop" ELSE "sched"]
              /\ UNCHANGED <<save_queue, timeouts>>
         [] timers[i].pc = "pop" ->
              IF save_queue = <<>>
                THEN /\ timers' = [timers EXCEPT ![i].pc = "error"]
                     /\ UNCHANGED <<save_queue, timeouts>>
                ELSE /\ save_queue' = SubSeq(save_queue, 1, Len(save_queue) - 1)
                     /\ timers' = [timers EXCEPT ![i].pc = "popped"]
                     /\ UNCHANGED timeouts
         [] timers[i].pc = "sched" ->
              /\ timeouts' = Append(timeouts,
                                [view |-> CallbackView(i),
                                 ld |-> IsLoading(CallbackView(i))])
              /\ timers' = [timers EXCEPT ![i].pc = "reset"]
              /\ UNCHANGED save_queue
         [] timers[i].pc = "reset" ->
              /\ save_queue' = ResetQueue
              /\ timers' = [timers EXCEPT ![i].pc = "depleted"]
              /\ UNCHANGED timeouts
    /\ UNCHANGED <<settingsVars, viewVars, saves, everEnabled>>

\* callback with the bug of scheduling itself again when it does not save.
callbackRetries ==
    /\ timeouts # <<>>
    /\ LET view == Head(timeouts).view IN
         IF ShouldSkip(view)
           THEN /\ timeouts' = Append(Tail(timeouts), Head(timeouts))
                /\ UNCHANGED <<dirty, saves>>
           ELSE /\ saves' = [saves EXCEPT ![view] = @ + 1]
                /\ \E ok \in BOOLEAN : dirty' = [dirty EXCEPT ![view] = ~ok]
                /\ timeouts' = Tail(timeouts)
    /\ UNCHANGED <<settingsVars, loading, file_name, save_queue, timers,
                   everEnabled>>

\* on_modified.callback, run by the host for the oldest set_timeout entry
\* (whose ld remembers is_loading() at the time of the set_timeout call).
\* view.run_command("save") writes the buffer; the view is clean afterwards
\* unless the host's save failed.
callback ==
    /\ timeouts # <<>>
    /\ LET view == Head(timeouts).view IN
         IF ShouldSkip(view)
           THEN UNCHANGED <<dirty, saves>>
           ELSE /\ saves' = [saves EXCEPT ![view] = @ + 1]
                /\ \E ok \in BOOLEAN : dirty' = [dirty EXCEPT ![view] = ~ok]
    /\ timeouts' = Tail(timeouts)
    /\ UNCHANGED <<settingsVars, loading, file_name, save_queue, timers,
                   everEnabled>>

\* run with the bug of switching the setting on in both branches.
runAlwaysOn(arg) ==
    /\ IF arg # "omitted"
         THEN UNCHANGED <<enabled, status, everEnabled>>
         ELSE /\ enabled' = TRUE
              /\ status' = "AutoSave Turned On"
              /\ everEnabled' = TRUE
    /\ UNCHANGED <<delay, last_loaded, viewVars, queueVars>>

\* AutoSaveCommand.run.  Its signature takes no `enable` keyword: the host's
\* call run(edit, enable=...) raises TypeError before the body runs.
run(arg) ==
    /\ IF arg # "omitted"
         THEN UNCHANGED <<enabled, status, everEnabled>>
       ELSE IF enabled
         THEN /\ enabled' = FALSE
              /\ status' = "AutoSave Turned Off"
              /\ UNCHANGED everEnabled
         ELSE /\ enabled' = TRUE
              /\ status' = "AutoSave Turned On"
              /\ everEnabled' = TRUE
    /\ UNCHANGED <<delay, last_loaded, viewVars, queueVars>>

\* The host (user edits, reloads, manual saves) changes what is_dirty and
\* is_loading return for a view.
HostChangesView(view) ==
    /\ \E d \in BOOLEAN, l \in BOOLEAN :
         /\ <<d, l>> # <<dirty[view], loading[view]>>
         /\ dirty' = [dirty EXCEPT ![view] = d]
         /\ loading' = [loading EXCEPT ![view] = l]
    /\ UNCHANGED <<settingsVars, file_name, queueVars, everEnabled>>

\* The user edits auto_save_delay_in_seconds in the settings file.
HostChangesDelay ==
    /\ \E d \in Delays \ {delay} : delay' = d
    /\ UNCHANGED <<enabled, last_loaded, status, viewVars, queueVars,
                   everEnabled>>

----------------------------------------------------------------------------
\* The plugin in its host: every handler, every Timer thread, the host's
\* changes to the views.
Next ==
    \/ \E view \in Views : on_load(view) /\ UNCHANGED observers
    \/ \E view \in Views :
          Len(timers) < MaxEvents /\ on_modified(view) /\ UNCHANGED observers
    \/ \E i \in TimerIds : TimerExpires(i) /\ UNCHANGED observers
    \/ \E i \in TimerIds : debounce_save(i) /\ UNCHANGED observers
    \/ callback /\ UNCHANGED observers
    \/ \E arg \in Args : run(arg) /\ UNCHANGED observers
    \/ \E view \in Views : HostChangesView(view) /\ UNCHANGED observers

Spec == Init /\ [][Next]_vars

----------------------------------------------------------------------------
\* The racing drains: auto-save is on, every view has a file, the user only
\* edits (a view becomes dirty and is not reloading), and each accepted
\* modification is assigned its burst.
InitRace ==
    /\ Init
    /\ enabled
    /\ \A v \in Views : file_name[v]

RaceModified(view) ==
    /\ Len(timers) < MaxRace
    /\ on_modified(view)
    /\ bursts' = IF Len(timers') > Len(timers)
                   THEN Append(bursts, BurstOfNext) ELSE bursts
    /\ UNCHANGED <<invoked, counters>>

RaceEdit(view) ==
    /\ HostChangesView(view)
    /\ dirty'[view]
    /\ ~loading'[view]
    /\ UNCHANGED observers

NextRace ==
    \/ \E view \in Views : RaceModified(view)
    \/ \E view \in Views : RaceEdit(view)
    \/ \E i \in TimerIds : TimerExpires(i) /\ UNCHANGED observers
    \/ \E i \in TimerIds : debounce_save(i) /\ UNCHANGED observers
    \/ callback /\ UNCHANGED observers

SpecRace == InitRace /\ [][NextRace]_vars

----------------------------------------------------------------------------
\* The toggle command observed: the settings, the host's views and every way
\* of invoking the command, each invocation recorded.
ToggleInvoked(arg) ==
    /\ run(arg)
    /\ invoked' = arg
    /\ UNCHANGED <<bursts, counters>>

NextToggle ==
    \/ \E arg \in Args : ToggleInvoked(arg)
    \/ \E view \in Views : on_load(view) /\ UNCHANGED observers
    \/ \E view \in Views : HostChangesView(view) /\ UNCHANGED observers
    \/ HostChangesDelay /\ UNCHANGED observers

SpecToggle == Init /\ [][NextToggle]_vars

----------------------------------------------------------------------------
\* The racing drains observed: as SpecRace, and every accepted modification,
\* pop, set_timeout and reset is counted.
ObsModified(view) ==
    /\ Len(timers) < MaxRace
    /\ on_modified(view)
    /\ LET accepted == Len(timers') > Len(timers) IN
         /\ bursts' = IF accepted THEN Append(bursts, BurstOfNext) ELSE bursts
         /\ sinceReset' = IF accepted THEN sinceReset + 1 ELSE sinceReset
         /\ owed' = IF accepted THEN owed \cup {view} ELSE owed
         /\ ungated' = IF accepted THEN TRUE ELSE ungated
         /\ raced' = (raced \/ (accepted /\ \E i \in TimerIds : InDrain(i)))
    /\ UNCHANGED <<invoked, poppedSince>>

ObsDrain(i) ==
    /\ debounce_save(i)
    /\ raced' = (raced \/ \E j \in TimerIds \ {i} : InDrain(j))
    /\ CASE timers[i].pc = "fired" ->
              UNCHANGED <<sinceReset, poppedSince, owed, ungated>>
         [] timers[i].pc = "pop" ->
              /\ poppedSince' = poppedSince + (Len(save_queue) - Len(save_queue'))
              /\ UNCHANGED <<sinceReset, owed, ungated>>
         [] timers[i].pc = "sched" ->
              /\ owed' = owed \ {timeouts'[Len(timeouts')].view}
              /\ ungated' = FALSE
              /\ UNCHANGED <<sinceReset, poppedSince>>
         [] timers[i].pc = "reset" ->
              /\ sinceReset' = 0
              /\ poppedSince' = 0
              /\ UNCHANGED <<owed, ungated>>
    /\ UNCHANGED <<invoked, bursts>>

NextObs ==
    \/ \E view \in Views : ObsModified(view)
    \/ \E view \in Views : RaceEdit(view)
    \/ \E i \in TimerIds : TimerExpires(i) /\ UNCHANGED observers
    \/ \E i \in TimerIds : ObsDrain(i)
    \/ callback /\ UNCHANGED observers

SpecObs == InitRace /\ [][NextObs]_vars

----------------------------------------------------------------------------
\* The drains under a mutual-exclusion discipline: while a drain is between
\* its length check and its pop or reset, no other drain takes a step and no
\* token is appended.  The delay setting changes, so Timers expire out of
\* order.
AtomicModified(view) ==
    /\ \A i \in TimerIds : ~InDrain(i)
    /\ ObsModified(view)

AtomicDrain(i) ==
    /\ \A j \in TimerIds \ {i} : ~InDrain(j)
    /\ ObsDrain(i)

NextAtomic ==
    \/ \E view \in Views : AtomicModified(view)
    \/ \E view \in Views : RaceEdit(view)
    \/ \E i \in TimerIds : TimerExpires(i) /\ UNCHANGED observers
    \/ \E i \in TimerIds : AtomicDrain(i)
    \/ callback /\ UNCHANGED observers
    \/ HostChangesDelay /\ UNCHANGED observers

SpecAtomic == InitRace /\ [][NextAtomic]_vars

----------------------------------------------------------------------------
\* Properties.

\* All accepted modifications so far were made to view v and form one burst.
SingleBurst(v) ==
    /\ timers # <<>>
    /\ \A i \in TimerIds : timers[i].view = v /\ bursts[i] = 1

AllDrainsFinished ==
    /\ \A i \in TimerIds : Finished(i)
    /\ timeouts = <<>>

\* C1: Single-burst coalescing.  When N >= 1 modifications of one enabled,
\* file-backed, dirty view arrive each less than `delay` after the previous
\* one, no save happens before the Timer of the last one has expired, and
\* once every drain and callback has run exactly one save has been made.
C1_SingleBurstOneSave ==
    \A v \in Views :
       SingleBurst(v) =>
          /\ saves[v] > 0 => timers[Len(timers)].pc # "armed"
          /\ AllDrainsFinished => saves[v] = 1

\* C2: Disabled no-op.  While the enabled setting has been false since the
\* plugin was loaded, no save has been made, the queue is empty and no Timer
\* (nor callback) has been scheduled.
C2_DisabledNoOp ==
    ~everEnabled =>
       /\ \A v \in Views : saves[v] = 0
       /\ save_queue = <<>>
       /\ timers = <<>>
       /\ timeouts = <<>>

\* A dirty, file-backed view exists (whose on_modified is delivered) while
\* auto-save has never been enabled, after a load event.
C2_Witness ==
    /\ ~everEnabled
    /\ last_loaded = "stamp"
    /\ \E v \in Views : dirty[v] /\ file_name[v] /\ ~loading[v]

\* C3: Untitled guard.  A view without a file name has never been saved.
C3_UntitledNeverSaved ==
    \A v \in Views : ~file_name[v] => saves[v] = 0

\* An untitled view is dirty while the other view has been saved through
\* the shared queue and a further drain is still under way.
C3_Witness ==
    \E v \in Views, w \in Views :
       /\ ~file_name[v] /\ dirty[v] /\ enabled
       /\ saves[w] > 0
       /\ \E i \in TimerIds : ~Finished(i)

\* C4: Reload suppression.  on_modified for a view that is not dirty leaves
\* the queue, the Timers, the scheduled callbacks and the save counts as
\* they are.
C4_ReloadSuppression ==
    [][\A v \in Views :
          (on_modified(v) /\ ~dirty[v]) => UNCHANGED queueVars]_vars

\* The reload case: auto-save is on, the view has a file, its modification
\* was accepted while dirty (its Timer is pending) and it is clean now.
C4_Witness ==
    \E v \in Views :
       /\ enabled /\ file_name[v] /\ ~dirty[v]
       /\ \E i \in TimerIds : timers[i].view = v /\ timers[i].pc = "armed"
       /\ Len(save_queue) = 1

\* C5 as claimed: a callback whose drain ran its reset branch while the view
\* was loading makes no save.
C5_LoadingAtDrainSkips ==
    [][(callback /\ Head(timeouts).ld) => saves' = saves]_vars

\* C5 amended: a callback that runs while its view is loading makes no save.
C5_LoadingAtCallbackSkips ==
    [][(callback /\ loading[Head(timeouts).view]) => saves' = saves]_vars

\* A callback is about to run for a dirty view that was loading when the
\* drain scheduled it and still is.
C5_Witness ==
    /\ timeouts # <<>>
    /\ Head(timeouts).ld
    /\ loading[Head(timeouts).view]
    /\ dirty[Head(timeouts).view]

\* C6: Save Gate decision.  Every run of callback saves its view if and only
\* if the view is dirty and not loading at that moment; otherwise it changes
\* nothing (beyond consuming the scheduled callback).
C6_SaveGateDecision ==
    [][callback =>
         LET view == Head(timeouts).view IN
           IF dirty[view] /\ ~loading[view]
             THEN saves' = [saves EXCEPT ![view] = @ + 1]
             ELSE UNCHANGED <<settingsVars, viewVars, save_queue, timers,
                              saves>>]_vars

\* A save has been made, and a callback is about to run for a view that is
\* dirty but loading.
C6_Witness ==
    /\ \E v \in Views : saves[v] > 0
    /\ timeouts # <<>>
    /\ dirty[Head(timeouts).view]
    /\ loading[Head(timeouts).view]

\* C7 as claimed: without argument the command flips the setting and reports
\* it; with enable=true the setting is on afterwards and "AutoSave Turned On"
\* is shown; with enable=false the setting is off afterwards.
C7_ToggleWithEnable ==
    [][/\ ToggleInvoked("omitted") =>
            /\ enabled' = ~enabled
            /\ status' = IF enabled THEN "AutoSave Turned Off"
                                    ELSE "AutoSave Turned On"
       /\ ToggleInvoked("true") =>
            enabled' /\ status' = "AutoSave Turned On"
       /\ ToggleInvoked("false") => ~enabled']_vars

\* C7 amended: without argument the command flips the setting and reports
\* it; invoked with an enable argument it changes neither the setting nor
\* the status message.
C7_ToggleFlipsOnly ==
    [][/\ ToggleInvoked("omitted") =>
            /\ enabled' = ~enabled
            /\ status' = IF enabled THEN "AutoSave Turned Off"
                                    ELSE "AutoSave Turned On"
       /\ \A arg \in Args \ {"omitted"} :
            ToggleInvoked(arg) => enabled' = enabled /\ status' = status]_vars

\* The command was switched off by a plain toggle and then invoked with
\* enable=true.
C7_Witness ==
    /\ invoked = "true"
    /\ status = "AutoSave Turned Off"
    /\ ~enabled

\* C8: Mutual exclusion of the drain step.  While a drain is between its
\* length check and its pop or reset, no token is appended and no other
\* drain takes a step.
C8_DrainMutualExclusion ==
    [][\A i \in TimerIds :
          InDrain(i) =>
             /\ Len(save_queue') <= Len(save_queue)
             /\ \A j \in TimerIds \ {i} :
                   timers[j].pc \in {"fired", "pop", "sched", "reset"}
                      => timers'[j].pc = timers[j].pc]_vars

\* C9: no two drains of the same burst both hand callback to set_timeout.
C9_OneGatePerBurst ==
    \A i \in TimerIds, j \in TimerIds :
       (i < j /\ bursts[i] = bursts[j]) => ~(Gated(i) /\ Gated(j))

\* C10: no drain pops from an empty queue (IndexError), and the queue length
\* is never negative.
C10_NoPopOnEmpty ==
    /\ \A i \in TimerIds : timers[i].pc # "error"
    /\ Len(save_queue) >= 0

\* The Timers whose drain has not finished, and those whose drain has not
\* started.
Unfinished == {i \in TimerIds : ~Finished(i)}
NotRun == {i \in TimerIds : timers[i].pc \in {"armed", "fired"}}

\* Timer i's drain takes the step at pc.
DrainStepAt(i, pc) == timers[i].pc = pc /\ timers'[i].pc # pc

\* C11 as claimed: the queue length equals the number of modifications
\* accepted since the queue was last reset to empty, and is not negative.
C11_LengthIsAcceptedSinceReset ==
    Len(save_queue) = sinceReset /\ Len(save_queue) >= 0

\* C11 amended: the queue length equals the number of modifications accepted
\* since the last reset minus the tokens popped since then, and is not
\* negative.
C11_LengthIsAcceptedMinusPopped ==
    /\ Len(save_queue) + poppedSince = sinceReset
    /\ Len(save_queue) >= 0

\* Three modifications were accepted since the last reset, one token has been
\* popped and two remain.
C11_Witness ==
    sinceReset = 3 /\ poppedSince = 1 /\ Len(save_queue) = 2

\* C12: once every Timer that was started has run its drain to the end,
\* callback has been handed to set_timeout at least once after the last
\* accepted modification.
C12_EventualSaveAttempt ==
    (timers # <<>> /\ \A i \in TimerIds : Finished(i)) => ~ungated

\* C13: when two different views had modifications accepted in one burst
\* (their Timers overlap) and every drain has finished, each of the two has
\* had callback handed to set_timeout for itself after its last modification.
C13_PerDocumentSave ==
    \A a \in Views, b \in Views :
       ( /\ a # b
         /\ \E i \in TimerIds, j \in TimerIds :
               /\ timers[i].view = a
               /\ timers[j].view = b
               /\ bursts[i] = bursts[j]
         /\ \A i \in TimerIds : Finished(i) )
       => (a \notin owed /\ b \notin owed)

\* C14: a drain that found more than one token removes exactly one and
\* schedules no callback; a drain that found one or none schedules exactly
\* one callback, for the view of its modification, and leaves the queue
\* empty; callbacks are scheduled by such drains only.
C14_DrainStepCases ==
    [][\A i \in TimerIds :
         /\ DrainStepAt(i, "fired") =>
               timers'[i].pc = IF Len(save_queue) > 1 THEN "pop" ELSE "sched"
         /\ DrainStepAt(i, "pop") =>
               /\ Len(save_queue') = Len(save_queue) - 1
               /\ timeouts' = timeouts
         /\ DrainStepAt(i, "sched") =>
               /\ Len(timeouts') = Len(timeouts) + 1
               /\ timeouts'[Len(timeouts')].view = timers[i].view
               /\ timers'[i].pc = "reset"
         /\ DrainStepAt(i, "reset") => save_queue' = <<>>
         /\ Len(timeouts') > Len(timeouts) =>
               \E j \in TimerIds : DrainStepAt(j, "sched")]_vars

\* C15: under mutual exclusion, a drain hands callback to set_timeout only
\* when the drain of every other Timer has finished, whatever the delays and
\* the order in which the Timers expire.
C15_TrailingEdge ==
    [][\A i \in TimerIds :
          DrainStepAt(i, "sched") =>
             \A j \in TimerIds \ {i} : Finished(j)]_vars

\* A Timer with the shorter delay, started later, has expired and popped
\* while the earlier Timer was outstanding; the earlier one then scheduled
\* the callback.
C15_Witness ==
    \E i \in TimerIds, j \in TimerIds :
       /\ i < j
       /\ timers[i].delay > timers[j].delay
       /\ timers[j].pc = "popped"
       /\ Gated(i)
       /\ \A k \in TimerIds \ {i} : Finished(k)

\* C16 as claimed: while the enabled setting is false no save is made and no
\* token is appended nor Timer started.
C16_NoSaveWhileDisabled ==
    [][~enabled =>
          /\ saves' = saves
          /\ Len(timers') = Len(timers)
          /\ Len(save_queue') <= Len(save_queue)]_vars

\* C16 amended: while the enabled setting is false no token is appended and
\* no Timer is started (Timers started before still run and may save).
C16_NoScheduleWhileDisabled ==
    [][~enabled =>
          /\ Len(timers') = Len(timers)
          /\ Len(save_queue') <= Len(save_queue)]_vars

\* Auto-save has been switched off while a Timer was pending, and a dirty
\* file-backed view exists whose modification now arrives.
C16_Witness ==
    /\ ~enabled
    /\ status = "AutoSave Turned Off"
    /\ \E i \in TimerIds : timers[i].pc = "armed"
    /\ \E v \in Views : dirty[v] /\ file_name[v] /\ ~loading[v]

\* Nothing of the debounce is pending for view v: no unfinished Timer and no
\* scheduled callback.
NothingPending(v) ==
    /\ \A i \in TimerIds : timers[i].view = v => Finished(i)
    /\ \A k \in 1..Len(timeouts) : timeouts[k].view # v

\* C17: a callback that skips (view clean or loading) appends no token,
\* starts no Timer and schedules no callback; and a view for which nothing
\* is pending is not saved.
C17_NoRetries ==
    [][/\ (callback /\ (~dirty[Head(timeouts).view]
                          \/ loading[Head(timeouts).view])) =>
             /\ UNCHANGED <<save_queue, timers, saves>>
             /\ timeouts' = Tail(timeouts)
       /\ \A v \in Views : NothingPending(v) => saves'[v] = saves[v]]_vars

\* The only scheduled callback is about to skip a loading view, and every
\* drain has finished: after the skip nothing is pending for the view.
C17_Witness ==
    /\ Len(timeouts) = 1
    /\ dirty[Head(timeouts).view]
    /\ loading[Head(timeouts).view]
    /\ timers # <<>>
    /\ \A i \in TimerIds : Finished(i)

\* C18: on_load leaves the queue, the Timers, the scheduled callbacks, the
\* save counts, the enabled and delay settings and the views as they are.
C18_LoadChangesNothing ==
    [][\A v \in Views :
          on_load(v) =>
             UNCHANGED <<queueVars, enabled, delay, status, viewVars>>]_vars

\* A load event has been handled while a token and a Timer were pending and
\* a save had been made.
C18_Witness ==
    /\ last_loaded = "stamp"
    /\ save_queue # <<>>
    /\ \E i \in TimerIds : timers[i].pc = "armed"
    /\ \E v \in Views : saves[v] > 0

\* The queue holds no more tokens than there are unfinished drains; and as
\* long as no drain has been interleaved, outside a drain the queue holds
\* exactly one token per Timer whose drain has not run.
TokensMatch ==
    /\ Len(save_queue) <= Cardinality(Unfinished)
    /\ (~raced /\ \A i \in TimerIds : ~InDrain(i)) =>
          Len(save_queue) = Cardinality(NotRun)

\* C19: an accepted modification appends exactly one token and starts
\* exactly one Timer, and tokens are appended in no other way; with drains
\* not interleaved the queue length equals the number of Timers whose drain
\* has not run, so no drain finds the queue empty; under every interleaving
\* the queue length does not exceed the number of unfinished drains.
C19_TokensMatchDrains ==
    [][/\ (Len(timers') # Len(timers)
             \/ Len(save_queue') > Len(save_queue)) =>
             /\ Len(timers') = Len(timers) + 1
             /\ save_queue' = Append(save_queue, 0)
       /\ \A i \in TimerIds :
             (~raced /\ DrainStepAt(i, "fired")) => save_queue # <<>>
       /\ TokensMatch']_vars

\* No drain has been interleaved; one drain has popped and two Timers are
\* still to run, with two tokens in the queue.
C19_Witness ==
    /\ ~raced
    /\ Len(save_queue) = 2
    /\ Cardinality(NotRun) = 2
    /\ \E i \in TimerIds : timers[i].pc = "popped"

\* The accepted modifications of view d: each started one Timer.
AcceptedFor(d) == {i \in TimerIds : timers[i].view = d}

\* C20: a view is saved only after a modification of it was accepted (it
\* had a file name and auto-save had been enabled), and no more often than
\* modifications of it were accepted.
C20_SavesCausedByModifications ==
    [][/\ Len(timers') > Len(timers) =>
             LET d == timers'[Len(timers')].view IN
               enabled /\ file_name[d] /\ dirty[d]
       /\ \A d \in Views :
             /\ saves'[d] <= Cardinality({i \in 1..Len(timers') :
                                            timers'[i].view = d})
             /\ saves'[d] > saves[d] => AcceptedFor(d) # {}]_vars

\* A view has been saved once for each of its two accepted modifications,
\* while the other view, dirty as well, has had none accepted.
C20_Witness ==
    \E d \in Views, o \in Views :
       /\ saves[d] = 2
       /\ Cardinality(AcceptedFor(d)) = 2
       /\ o # d /\ dirty[o] /\ saves[o] = 0

====
